---- MODULE Spec2Model ----
(***************************************************************************)
(* Model of the Anchor program `tracking_system`                            *)
(* (src/programs/tracking/src/lib.rs).                                      *)
(*                                                                          *)
(* Accounts live at program-derived addresses.  An address is modelled by   *)
(* the tuple of seed bytes it is hashed from, so two addresses are equal    *)
(* exactly when their seeds are equal.  An account that was never written   *)
(* reads as all zeroes, which is what `init_if_needed` hands the handler.   *)
(* A transaction whose handler returns an error is discarded by the         *)
(* runtime; the handler itself is the operator add_tracking_data, which     *)
(* returns the in-memory accounts as they are at the point of return.       *)
(* The fixed account sizes (100 tracks, 40 list entries) are far above the  *)
(* bounds used here and are not modelled.                                   *)
(***************************************************************************)
EXTENDS Integers, Sequences, FiniteSets, TLC

\* ---------------------------------------------------------------- bounds
MaxDay == 2          \* days 0..MaxDay since the epoch
MaxCount == 2        \* an event's count is 0 or MaxCount
MaxEvents == 3       \* accepted events, one tracker (Spec)
MaxEventsWide == 2   \* accepted events, two trackers (SpecWide)
MaxEventsRegistry == 2  \* accepted events, three titles (SpecRegistry)
MaxDayDeep == 4      \* days 0..MaxDayDeep, one owner (SpecDeep, SpecGrowth)
MaxEventsDeep == 4   \* accepted events, one owner (SpecDeep)

\* ------------------------------------------------------ program constants
SecondsPerDay == 86400
one_day == 86400
ByteRange == 256

\* ----------------------------------------------------------------- inputs
Users == {"alice", "bob"}
DefaultPubkey == "default"
Titles == {"steps", "water"}
AllTitles == Titles \cup {"salad"}
Offsets == {0, 43200}
Dates == {d * SecondsPerDay + o : d \in 0..MaxDay, o \in Offsets}
DeepDates == {d * SecondsPerDay : d \in 0..MaxDayDeep}
Counts == {0, MaxCount}
TrackerIds == {77, 159, 333}

\* First byte of the tracker's program-derived address: the SHA-256 of
\* "tracker", the title, the bump and the program id declared at lib.rs:3.
\* One byte has 256 values, so titles collide; "water" and "salad" do.
PdaFirstByte(title) == IF title = "steps" THEN 77 ELSE 159

\* `x as u8`
AsU8(x) == x % ByteRange

\* (date / 86400) * 86400
normalize(date) == (date \div SecondsPerDay) * SecondsPerDay

\* ------------------------------------------------------------- addresses
\* seeds = [b"tracking_data", user.key(), &[tracker_id as u8; 13]]
tracking_data_seeds(user, tracker_id) == <<"tracking_data", user, AsU8(tracker_id)>>

\* seeds = [b"tracker_stats", &[tracker_id as u8; 13], &[normalized as u8; 13]]
tracker_stats_seeds(tracker_id, date) ==
    <<"tracker_stats", AsU8(tracker_id), AsU8(normalize(date))>>

\* seeds = [b"tracker_stats_list", &[tracker_id as u8; 18]]
tracker_stats_list_seeds(tracker_id) == <<"tracker_stats_list", AsU8(tracker_id)>>

\* seeds = [b"tracker_streak", user.key(), &[tracker_id as u8; 13]]
tracker_streak_seeds(user, tracker_id) == <<"tracker_streak", user, AsU8(tracker_id)>>

TrackingDataAddrs == {tracking_data_seeds(u, t) : u \in Users, t \in TrackerIds}
TrackerStatsAddrs == {tracker_stats_seeds(t, d) : t \in TrackerIds, d \in Dates}
TrackerStatsListAddrs == {tracker_stats_list_seeds(t) : t \in TrackerIds}
TrackerStreakAddrs == {tracker_streak_seeds(u, t) : u \in Users, t \in TrackerIds}

\* ------------------------------------------------------- zeroed accounts
NoTracker == [id |-> 0, title |-> "", exists |-> FALSE]
ZeroTrackingData == [user |-> DefaultPubkey, tracker_id |-> 0, tracks |-> <<>>]
ZeroTrackerStats == [tracker_id |-> 0, date |-> 0, total_count |-> 0, unique_users |-> 0]
ZeroTrackerStatsList == [tracker_id |-> 0, stats |-> <<>>]
ZeroTrackerStreak ==
    [user |-> DefaultPubkey, tracker_id |-> 0, streak |-> 0, last_streak_date |-> 0,
     longest_streak |-> 0, longest_streak_date |-> 0]

VARIABLES
    registry_initialized,   \* the tracker_registry account exists
    tracker_names,          \* TrackerRegistry.tracker_names
    tracker,                \* title -> Tracker account
    tracking_data,          \* address -> TrackingData
    tracker_stats,          \* address -> TrackerStatsAccount
    tracker_stats_list,     \* address -> TrackerStatsList
    tracker_streak,         \* address -> TrackerStreakAccount
    accepted,               \* the add_tracking_data calls that returned Ok
    result                  \* what the last instruction returned

accounts == <<tracking_data, tracker_stats, tracker_stats_list, tracker_streak>>
vars == <<registry_initialized, tracker_names, tracker, tracking_data, tracker_stats,
          tracker_stats_list, tracker_streak, accepted, result>>

\* ---------------------------------------------------------------- helpers
\* iter().position(|t| t.date == d): 1-based index of the first match, 0 for None
position(s, d) ==
    LET hits == {i \in 1..Len(s) : s[i].date = d}
    IN  IF hits = {} THEN 0 ELSE CHOOSE i \in hits : \A j \in hits : i <= j

\* tracks.sort_by(|a, b| b.date.cmp(&a.date)): a stable sort, date descending.
\* The element at index i lands after every element with a later date and
\* after the elements of equal date that stood before it.
sort_by_date_desc(s) ==
    LET rank(i) == Cardinality({j \in 1..Len(s) : s[j].date > s[i].date})
                   + Cardinality({j \in 1..i : s[j].date = s[i].date})
    IN  [p \in 1..Len(s) |-> s[CHOOSE i \in 1..Len(s) : rank(i) = p]]

\* A ledger that appends without sorting.
push_track_unsorted(tracks, track) == Append(tracks, track)

\* tracks.push(track) followed by the sort
push_track(tracks, track) == sort_by_date_desc(Append(tracks, track))

\* An index that appends a snapshot on every update.
upsert_stats_entry_always_push(stats, entry) == Append(stats, entry)

\* Lines 129-140: the snapshot for entry.date is overwritten in place, or
\* appended when the list has none.
upsert_stats_entry(stats, entry) ==
    LET i == position(stats, entry.date)
    IN  IF i # 0
        THEN [stats EXCEPT ![i] = [@ EXCEPT !.total_count = entry.total_count,
                                            !.unique_users = entry.unique_users]]
        ELSE Append(stats, entry)

\* ------------------------------------------- add_tracking_data, lib.rs 42-181
\* A ledger that replaces the count of an existing day instead of refusing it.
update_tracking_data_overwrite(td, user, tracker_id, count, date) ==
    LET td1 == IF td.user = DefaultPubkey
               THEN [td EXCEPT !.user = user, !.tracker_id = tracker_id]
               ELSE td
        normalized_date == normalize(date)
        existing_index == position(td1.tracks, normalized_date)
    IN  IF existing_index # 0
        THEN [res |-> "Ok", existing_index |-> existing_index,
              td |-> [td1 EXCEPT !.tracks[existing_index].count = count]]
        ELSE [res |-> "Ok", existing_index |-> 0,
              td |-> [td1 EXCEPT !.tracks =
                         push_track(@, [date |-> normalized_date, count |-> count])]]

\* A ledger that pushes the entry before it looks for a duplicate.
update_tracking_data_push_first(td, user, tracker_id, count, date) ==
    LET td1 == IF td.user = DefaultPubkey
               THEN [td EXCEPT !.user = user, !.tracker_id = tracker_id]
               ELSE td
        normalized_date == normalize(date)
        existing_index == position(td1.tracks, normalized_date)
        td2 == [td1 EXCEPT !.tracks =
                   push_track(@, [date |-> normalized_date, count |-> count])]
    IN  [res |-> IF existing_index # 0 THEN "TrackingDataAlreadyExists" ELSE "Ok",
         existing_index |-> existing_index, td |-> td2]

\* Lines 54-81: the ledger. Returns the result, the index of the entry found
\* for the day (0 for None) and the TrackingData account as it is left.
update_tracking_data(td, user, tracker_id, count, date) ==
    LET is_new_user == td.user = DefaultPubkey
        td1 == IF is_new_user
               THEN [td EXCEPT !.user = user, !.tracker_id = tracker_id]
               ELSE td
        normalized_date == normalize(date)
        existing_index == position(td1.tracks, normalized_date)
    IN  IF existing_index # 0
        THEN [res |-> "TrackingDataAlreadyExists", existing_index |-> existing_index,
              td |-> td1]
        ELSE [res |-> "Ok", existing_index |-> existing_index,
              td |-> [td1 EXCEPT !.tracks =
                         push_track(@, [date |-> normalized_date, count |-> count])]]

\* Lines 83-141: the daily aggregate account and its mirror in the list.
update_tracker_stats(ts, tsl, tracks, existing_index, tracker_id, count, normalized_date) ==
    LET tsl1 == IF tsl.tracker_id = 0 THEN [tsl EXCEPT !.tracker_id = tracker_id] ELSE tsl
        entry(total, unique) ==
            [tracker_id |-> tracker_id, date |-> normalized_date,
             total_count |-> total, unique_users |-> unique]
    IN  IF ts.tracker_id = 0 /\ ts.date = 0
        THEN [stats |-> entry(count, 1),
              list  |-> IF position(tsl1.stats, normalized_date) = 0
                        THEN [tsl1 EXCEPT !.stats = Append(@, entry(count, 1))]
                        ELSE tsl1]
        ELSE LET ts1 ==
                    IF ts.date # normalized_date
                    THEN [ts EXCEPT !.date = normalized_date, !.total_count = count,
                                    !.unique_users = 1]
                    ELSE IF existing_index # 0
                    THEN [ts EXCEPT !.total_count =
                                        @ - tracks[existing_index].count + count]
                    ELSE [ts EXCEPT !.total_count = @ + count, !.unique_users = @ + 1]
             IN  [stats |-> ts1,
                  list  |-> [tsl1 EXCEPT !.stats =
                               upsert_stats_entry(@, entry(ts1.total_count,
                                                           ts1.unique_users))]]

\* Variants of update_streak with one step left out, for mutation runs:
\* `longest` is "full", "no_date" (the record's day is not moved) or "none"
\* (the record is never raised); `gap` and `zero` switch the reset on a gap
\* and the reset on a zero count.
update_streak_variant(tk, user, tracker_id, count, normalized_date, longest, gap, zero) ==
    IF tk.user = DefaultPubkey
    THEN [user |-> user, tracker_id |-> tracker_id, streak |-> 1,
          last_streak_date |-> normalized_date,
          longest_streak |-> 1, longest_streak_date |-> normalized_date]
    ELSE LET last_date == tk.last_streak_date
         IN  IF normalized_date = last_date THEN tk
             ELSE LET tk1 ==
                        IF normalized_date = last_date + one_day /\ count > 0
                        THEN LET s == tk.streak + 1
                             IN  IF s > tk.longest_streak /\ longest = "full"
                                 THEN [tk EXCEPT !.streak = s, !.longest_streak = s,
                                                 !.longest_streak_date = normalized_date]
                                 ELSE IF s > tk.longest_streak /\ longest = "no_date"
                                 THEN [tk EXCEPT !.streak = s, !.longest_streak = s]
                                 ELSE [tk EXCEPT !.streak = s]
                        ELSE IF normalized_date > last_date + one_day /\ gap
                        THEN [tk EXCEPT !.streak = 1]
                        ELSE IF count = 0 /\ zero THEN [tk EXCEPT !.streak = 0]
                        ELSE tk
                  IN [tk1 EXCEPT !.last_streak_date = normalized_date]

update_streak_longest_day_kept(tk, user, tracker_id, count, normalized_date) ==
    update_streak_variant(tk, user, tracker_id, count, normalized_date, "no_date", TRUE, TRUE)

update_streak_longest_never_raised(tk, user, tracker_id, count, normalized_date) ==
    update_streak_variant(tk, user, tracker_id, count, normalized_date, "none", TRUE, TRUE)

update_streak_no_gap_reset(tk, user, tracker_id, count, normalized_date) ==
    update_streak_variant(tk, user, tracker_id, count, normalized_date, "full", FALSE, TRUE)

update_streak_zero_ignored(tk, user, tracker_id, count, normalized_date) ==
    update_streak_variant(tk, user, tracker_id, count, normalized_date, "full", TRUE, FALSE)

\* Lines 143-178: the streak account.
update_streak(tk, user, tracker_id, count, normalized_date) ==
    IF tk.user = DefaultPubkey
    THEN [user |-> user, tracker_id |-> tracker_id, streak |-> 1,
          last_streak_date |-> normalized_date, longest_streak |-> 1,
          longest_streak_date |-> normalized_date]
    ELSE LET last_date == tk.last_streak_date
         IN  IF normalized_date = last_date
             THEN tk
             ELSE LET tk1 ==
                        IF normalized_date = last_date + one_day /\ count > 0
                        THEN LET s == tk.streak + 1
                             IN  IF s > tk.longest_streak
                                 THEN [tk EXCEPT !.streak = s, !.longest_streak = s,
                                                 !.longest_streak_date = normalized_date]
                                 ELSE [tk EXCEPT !.streak = s]
                        ELSE IF normalized_date > last_date + one_day
                        THEN [tk EXCEPT !.streak = 1]
                        ELSE IF count = 0
                        THEN [tk EXCEPT !.streak = 0]
                        ELSE tk
                  IN  [tk1 EXCEPT !.last_streak_date = normalized_date]

\* The handler. acc holds the four accounts the instruction resolved; the value
\* returned holds the result and the accounts as the handler leaves them.
add_tracking_data(acc, trk, user, tracker_id, count, date) ==
    IF trk.id # tracker_id
    THEN [res |-> "InvalidTrackerId", acc |-> acc]
    ELSE LET led == update_tracking_data(acc.tracking_data, user, tracker_id, count, date)
         IN  IF led.res # "Ok"
             THEN [res |-> led.res, acc |-> [acc EXCEPT !.tracking_data = led.td]]
             ELSE LET normalized_date == normalize(date)
                      st == update_tracker_stats(acc.tracker_stats, acc.tracker_stats_list,
                                                 led.td.tracks, led.existing_index,
                                                 tracker_id, count, normalized_date)
                      tk == update_streak(acc.tracker_streak, user, tracker_id, count,
                                          normalized_date)
                  IN  [res |-> "Ok",
                       acc |-> [tracking_data |-> led.td, tracker_stats |-> st.stats,
                                tracker_stats_list |-> st.list, tracker_streak |-> tk]]

\* The accounts the AddTrackingData context resolves from the instruction's
\* arguments (lib.rs 314-368).
AddTrackingDataAccounts(user, tracker_id, date) ==
    [tracking_data |-> tracking_data[tracking_data_seeds(user, tracker_id)],
     tracker_stats |-> tracker_stats[tracker_stats_seeds(tracker_id, date)],
     tracker_stats_list |-> tracker_stats_list[tracker_stats_list_seeds(tracker_id)],
     tracker_streak |-> tracker_streak[tracker_streak_seeds(user, tracker_id)]]

\* What the instruction returns in the current state.
AddTrackingDataOutcome(user, title, tracker_id, count, date) ==
    add_tracking_data(AddTrackingDataAccounts(user, tracker_id, date), tracker[title],
                      user, tracker_id, count, date)

\* ------------------------------------------------------------------ views
\* get_tracker_stats, lib.rs 202-233
get_tracker_stats(tracker_id, date) ==
    LET ts == tracker_stats[tracker_stats_seeds(tracker_id, date)]
    IN  IF ts.tracker_id # tracker_id THEN [res |-> "InvalidTrackerId"]
        ELSE IF ts.date # normalize(date) THEN [res |-> "InvalidTrackerId"]
        ELSE IF ts.tracker_id = 0 /\ ts.date = 0
        THEN [res |-> "Ok", total_count |-> 0, unique_users |-> 0]
        ELSE [res |-> "Ok", total_count |-> ts.total_count,
              unique_users |-> ts.unique_users]

\* get_all_tracker_stats, lib.rs 257-267
get_all_tracker_stats(tracker_id) ==
    LET tsl == tracker_stats_list[tracker_stats_list_seeds(tracker_id)]
    IN  IF tsl.tracker_id # tracker_id THEN [res |-> "InvalidTrackerId"]
        ELSE [res |-> "Ok", stats |-> tsl.stats]

\* get_user_tracking_data, lib.rs 189-199
get_user_tracking_data(user, tracker_id) ==
    LET td == tracking_data[tracking_data_seeds(user, tracker_id)]
    IN  IF td.tracker_id # tracker_id THEN [res |-> "InvalidTrackerId"]
        ELSE [res |-> "Ok", tracks |-> td.tracks]

\* ---------------------------------------------------------------- actions
Init ==
    /\ registry_initialized = FALSE
    /\ tracker_names = <<>>
    /\ tracker = [t \in AllTitles |-> NoTracker]
    /\ tracking_data = [a \in TrackingDataAddrs |-> ZeroTrackingData]
    /\ tracker_stats = [a \in TrackerStatsAddrs |-> ZeroTrackerStats]
    /\ tracker_stats_list = [a \in TrackerStatsListAddrs |-> ZeroTrackerStatsList]
    /\ tracker_streak = [a \in TrackerStreakAddrs |-> ZeroTrackerStreak]
    /\ accepted = {}
    /\ result = "none"

\* initialize, lib.rs 10-17; `init` refuses an address already in use
Initialize ==
    /\ IF registry_initialized
       THEN /\ result' = "AccountAlreadyInUse"
            /\ UNCHANGED <<registry_initialized, tracker_names>>
       ELSE /\ result' = "Ok"
            /\ registry_initialized' = TRUE
            /\ tracker_names' = <<>>
    /\ UNCHANGED <<tracker, tracking_data, tracker_stats, tracker_stats_list,
                   tracker_streak, accepted>>

\* create_tracker with `init_if_needed` in place of `init`, for mutation runs
CreateTracker_init_if_needed(title) ==
    /\ IF ~registry_initialized
       THEN /\ result' = "AccountNotInitialized"
            /\ UNCHANGED <<tracker, tracker_names>>
       ELSE /\ result' = "Ok"
            /\ tracker' = [tracker EXCEPT ![title] =
                              [id |-> PdaFirstByte(title), title |-> title,
                               exists |-> TRUE]]
            /\ tracker_names' = Append(tracker_names, title)
    /\ UNCHANGED <<registry_initialized, tracking_data, tracker_stats,
                   tracker_stats_list, tracker_streak, accepted>>

\* create_tracker, lib.rs 20-39
CreateTracker(title) ==
    /\ IF ~registry_initialized
       THEN /\ result' = "AccountNotInitialized"
            /\ UNCHANGED <<tracker, tracker_names>>
       ELSE IF tracker[title].exists
       THEN /\ result' = "AccountAlreadyInUse"
            /\ UNCHANGED <<tracker, tracker_names>>
       ELSE /\ result' = "Ok"
            /\ tracker' = [tracker EXCEPT ![title] =
                              [id |-> PdaFirstByte(title), title |-> title,
                               exists |-> TRUE]]
            /\ tracker_names' = Append(tracker_names, title)
    /\ UNCHANGED <<registry_initialized, tracking_data, tracker_stats,
                   tracker_stats_list, tracker_streak, accepted>>

\* add_tracking_data, lib.rs 42-181, as one transaction: the accounts are
\* written back only when the handler returns Ok.
AddTrackingData(user, title, tracker_id, count, date) ==
    /\ IF ~tracker[title].exists
       THEN /\ result' = "AccountNotInitialized"
            /\ UNCHANGED <<accounts, accepted>>
       ELSE LET r == AddTrackingDataOutcome(user, title, tracker_id, count, date)
            IN  /\ result' = r.res
                /\ IF r.res = "Ok"
                   THEN /\ tracking_data' =
                              [tracking_data EXCEPT
                                 ![tracking_data_seeds(user, tracker_id)] =
                                     r.acc.tracking_data]
                        /\ tracker_stats' =
                              [tracker_stats EXCEPT
                                 ![tracker_stats_seeds(tracker_id, date)] =
                                     r.acc.tracker_stats]
                        /\ tracker_stats_list' =
                              [tracker_stats_list EXCEPT
                                 ![tracker_stats_list_seeds(tracker_id)] =
                                     r.acc.tracker_stats_list]
                        /\ tracker_streak' =
                              [tracker_streak EXCEPT
                                 ![tracker_streak_seeds(user, tracker_id)] =
                                     r.acc.tracker_streak]
                        /\ accepted' = accepted \cup
                              {[user |-> user, tracker_id |-> tracker_id,
                                date |-> normalize(date), count |-> count]}
                   ELSE UNCHANGED <<accounts, accepted>>
    /\ UNCHANGED <<registry_initialized, tracker_names, tracker>>

\* The calls explored: any of the given users, tracker accounts and ids, any
\* count and date, while fewer than n events have been accepted.
AddTrackingDataStep(users, titles, tracker_ids, n) ==
    \E user \in users, title \in titles, tracker_id \in tracker_ids,
       count \in Counts, date \in Dates :
        /\ Cardinality(accepted) < n
        /\ AddTrackingData(user, title, tracker_id, count, date)

\* Two owners and one tracker; 333 is an id whose low byte is the tracker's.
Next ==
    \/ Initialize
    \/ CreateTracker("steps")
    \/ AddTrackingDataStep(Users, {"steps"}, {77, 333}, MaxEvents)

Spec == Init /\ [][Next]_vars

\* Two owners and two trackers.
NextWide ==
    \/ Initialize
    \/ \E title \in Titles : CreateTracker(title)
    \/ AddTrackingDataStep(Users, Titles, {77, 159}, MaxEventsWide)

SpecWide == Init /\ [][NextWide]_vars

\* One owner and three titles, two of which get the same id.
NextRegistry ==
    \/ Initialize
    \/ \E title \in AllTitles : CreateTracker(title)
    \/ AddTrackingDataStep({"alice"}, {"water", "salad"}, {159}, MaxEventsRegistry)

SpecRegistry == Init /\ [][NextRegistry]_vars

\* Every event is for the day after the owner's most recent one, count > 0.
GrowthStep ==
    \E user \in Users, count \in Counts \ {0}, date \in DeepDates :
        LET tracks == tracking_data[tracking_data_seeds(user, 77)].tracks
        IN  /\ IF tracks = <<>> THEN TRUE
               ELSE normalize(date) = tracks[1].date + one_day
            /\ AddTrackingData(user, "steps", 77, count, date)

NextGrowth ==
    \/ Initialize
    \/ CreateTracker("steps")
    \/ GrowthStep

SpecGrowth == Init /\ [][NextGrowth]_vars

\* One owner, one tracker, more days and events, submitted in any order.
AddTrackingDataStepDeep ==
    \E count \in Counts, date \in DeepDates :
        /\ Cardinality(accepted) < MaxEventsDeep
        /\ AddTrackingData("alice", "steps", 77, count, date)

NextDeep ==
    \/ Initialize
    \/ CreateTracker("steps")
    \/ AddTrackingDataStepDeep

SpecDeep == Init /\ [][NextDeep]_vars

\* ================================================================ claims
\* The UTC day a timestamp falls in.
DayOf(date) == date \div SecondsPerDay

\* The owner's ledger for the tracker.
Ledger(user, tracker_id) == tracking_data[tracking_data_seeds(user, tracker_id)].tracks

HasEntry(user, tracker_id, day) ==
    \E i \in 1..Len(Ledger(user, tracker_id)) : Ledger(user, tracker_id)[i].date = day

\* The count the owner's ledger holds for the day, 0 when it has no entry.
LedgerCount(user, tracker_id, day) ==
    LET l == Ledger(user, tracker_id)
    IN  IF HasEntry(user, tracker_id, day)
        THEN l[CHOOSE i \in 1..Len(l) : l[i].date = day].count
        ELSE 0

RECURSIVE LedgerSumOver(_, _, _)
LedgerSumOver(users, tracker_id, day) ==
    IF users = {} THEN 0
    ELSE LET u == CHOOSE x \in users : TRUE
         IN  LedgerCount(u, tracker_id, day) + LedgerSumOver(users \ {u}, tracker_id, day)

LedgerSum(tracker_id, day) == LedgerSumOver(Users, tracker_id, day)
LedgerOwners(tracker_id, day) == {u \in Users : HasEntry(u, tracker_id, day)}
AcceptedFor(tracker_id) == {e \in accepted : e.tracker_id = tracker_id}

\* C1: two accepted events with different logical keys never resolve to the
\* same record: different (tracker, day) give different daily-aggregate
\* addresses, different (owner, tracker) give different ledger and streak
\* addresses, different trackers give different index addresses.
C1_AddressesCollisionFree ==
    \A e1, e2 \in accepted :
        /\ <<e1.tracker_id, e1.date>> # <<e2.tracker_id, e2.date>>
              => tracker_stats_seeds(e1.tracker_id, e1.date)
                   # tracker_stats_seeds(e2.tracker_id, e2.date)
        /\ <<e1.user, e1.tracker_id>> # <<e2.user, e2.tracker_id>>
              => /\ tracking_data_seeds(e1.user, e1.tracker_id)
                      # tracking_data_seeds(e2.user, e2.tracker_id)
                 /\ tracker_streak_seeds(e1.user, e1.tracker_id)
                      # tracker_streak_seeds(e2.user, e2.tracker_id)
        /\ e1.tracker_id # e2.tracker_id
              => tracker_stats_list_seeds(e1.tracker_id)
                   # tracker_stats_list_seeds(e2.tracker_id)

\* C2: for every tracker and day with an accepted event, the daily aggregate
\* read back for that tracker and day has total_count equal to the sum of the
\* counts of all owners' ledger entries for the day.
C2_TotalCountIsLedgerSum ==
    \A e \in accepted :
        LET r == get_tracker_stats(e.tracker_id, e.date)
        IN  /\ r.res = "Ok"
            /\ r.total_count = LedgerSum(e.tracker_id, e.date)

\* C3: for every tracker and day with an accepted event, the daily aggregate
\* read back for that tracker and day has unique_users equal to the number of
\* distinct owners holding a ledger entry for the day.
C3_UniqueUsersIsOwnerCount ==
    \A e \in accepted :
        LET r == get_tracker_stats(e.tracker_id, e.date)
        IN  /\ r.res = "Ok"
            /\ r.unique_users = Cardinality(LedgerOwners(e.tracker_id, e.date))

\* C4: every entry of the list get_all_tracker_stats returns carries the
\* total_count and unique_users that get_tracker_stats returns for the entry's
\* tracker and day.
C4_IndexMatchesLiveAggregate ==
    \A tracker_id \in TrackerIds :
        LET l == get_all_tracker_stats(tracker_id)
        IN  l.res = "Ok" =>
              \A i \in 1..Len(l.stats) :
                  LET r == get_tracker_stats(tracker_id, l.stats[i].date)
                  IN  /\ r.res = "Ok"
                      /\ r.total_count = l.stats[i].total_count
                      /\ r.unique_users = l.stats[i].unique_users

\* C5: the tracker's index list holds exactly one entry for each day on which
\* an event was accepted for the tracker: none missing, none twice, none extra.
C5_IndexHasOneEntryPerDay ==
    \A tracker_id \in TrackerIds :
        LET l == get_all_tracker_stats(tracker_id)
        IN  IF l.res = "Ok"
            THEN /\ \A e \in AcceptedFor(tracker_id) :
                       Cardinality({i \in 1..Len(l.stats) : l.stats[i].date = e.date}) = 1
                 /\ \A i \in 1..Len(l.stats) :
                       \E e \in AcceptedFor(tracker_id) : e.date = l.stats[i].date
            ELSE AcceptedFor(tracker_id) = {}

\* Two owners recorded on one day and one of them on another: the list holds
\* two entries for three accepted events.
C5_Witness ==
    \E tracker_id \in TrackerIds :
        /\ get_all_tracker_stats(tracker_id).res = "Ok"
        /\ Len(get_all_tracker_stats(tracker_id).stats) = 2
        /\ Cardinality(AcceptedFor(tracker_id)) = 3

\* C6: every ledger is sorted by day strictly descending, so it holds at most
\* one entry per day, and every date it holds is a day boundary.
C6_LedgerSortedDescending ==
    \A a \in TrackingDataAddrs :
        LET l == tracking_data[a].tracks
        IN  /\ \A i \in 1..Len(l) : l[i].date = DayOf(l[i].date) * SecondsPerDay
            /\ \A i \in 1..(Len(l) - 1) : l[i].date > l[i + 1].date

\* A ledger of three days whose middle day was the last one submitted.
C6_Witness ==
    \E user \in Users, tracker_id \in TrackerIds :
        /\ Len(Ledger(user, tracker_id)) = 3
        /\ tracker_streak[tracker_streak_seeds(user, tracker_id)].last_streak_date
             = Ledger(user, tracker_id)[2].date

\* C7: when the owner's ledger for the tracker holds an entry for the UTC day
\* of a timestamp, add_tracking_data with that timestamp and any count returns
\* TrackingDataAlreadyExists and leaves ledger, daily aggregate, index and
\* streak as they were.
C7_DuplicateDayRejected ==
    \A user \in Users, title \in Titles, count \in Counts, date \in Dates :
        tracker[title].exists =>
          LET tracker_id == tracker[title].id
              l == Ledger(user, tracker_id)
          IN  (\E i \in 1..Len(l) : DayOf(l[i].date) = DayOf(date)) =>
                LET r == AddTrackingDataOutcome(user, title, tracker_id, count, date)
                IN  /\ r.res = "TrackingDataAlreadyExists"
                    /\ r.acc = AddTrackingDataAccounts(user, tracker_id, date)

\* A call has been refused as a duplicate.
C7_Witness == result = "TrackingDataAlreadyExists"

\* C8: no event is accepted whose day is earlier than the last_streak_date of
\* the owner's streak record for the tracker.
C8_OutOfOrderRejected ==
    [][\A e \in accepted' \ accepted :
          LET tk == tracker_streak[tracker_streak_seeds(e.user, e.tracker_id)]
          IN  tk.user # DefaultPubkey => e.date >= tk.last_streak_date]_vars

\* C9: no step lowers the last_streak_date of any streak record.
C9_LastDayNeverDecreases ==
    [][\A a \in TrackerStreakAddrs :
          tracker_streak'[a].last_streak_date >= tracker_streak[a].last_streak_date]_vars

\* Every call the handler refuses returns with the four accounts as it got them.
C10_HandlerFailsClean ==
    \A user \in Users, title \in Titles, tracker_id \in TrackerIds,
       count \in Counts, date \in Dates :
        tracker[title].exists =>
          LET r == AddTrackingDataOutcome(user, title, tracker_id, count, date)
          IN  r.res # "Ok" => r.acc = AddTrackingDataAccounts(user, tracker_id, date)

\* C10: a failing add_tracking_data (tracker id mismatch or duplicate day)
\* leaves ledger, daily aggregate, index and streak exactly as they were, and
\* the handler has changed none of them at the point where it fails.
C10_FailureChangesNothing ==
    /\ []C10_HandlerFailsClean
    /\ [][result' # "Ok" => UNCHANGED accounts]_vars

\* A call was refused for its tracker id after events had been accepted.
C10_Witness == result = "InvalidTrackerId" /\ accepted # {}

\* C11: tracker ids are unique: no two trackers with different titles have
\* the same id.
C11_TrackerIdsUnique ==
    \A t1 \in AllTitles, t2 \in AllTitles :
        (tracker[t1].exists /\ tracker[t2].exists /\ t1 # t2)
            => tracker[t1].id # tracker[t2].id

\* C12: from no prior events, accepted events with count > 0 on n consecutive
\* days in increasing order give streak = n and longest_streak = n, with
\* last_streak_date and longest_streak_date the last of those days.
\* SpecGrowth submits exactly such sequences, so the ledger is the run.
C12_StreakGrowth ==
    \A user \in Users :
        LET tracks == Ledger(user, 77)
            tk == tracker_streak[tracker_streak_seeds(user, 77)]
        IN  tracks # <<>> =>
              /\ \A i \in 1..Len(tracks) :
                    /\ tracks[i].count > 0
                    /\ tracks[i].date = tracks[1].date - (i - 1) * one_day
              /\ tk.streak = Len(tracks)
              /\ tk.longest_streak = Len(tracks)
              /\ tk.last_streak_date = tracks[1].date
              /\ tk.longest_streak_date = tracks[1].date

C12_Witness ==
    \E user \in Users :
        /\ Len(Ledger(user, 77)) = 3
        /\ tracker_streak[tracker_streak_seeds(user, 77)].streak = 3

\* C13: an event accepted on a day more than one day after last_streak_date
\* sets streak to 1 and last_streak_date to that day and leaves
\* longest_streak and longest_streak_date as they were.
C13_StreakResetOnGap ==
    [][\A e \in accepted' \ accepted :
          LET a == tracker_streak_seeds(e.user, e.tracker_id)
              tk == tracker_streak[a]
              tk2 == tracker_streak'[a]
          IN  (tk.user # DefaultPubkey /\ e.date > tk.last_streak_date + one_day)
                => /\ tk2.streak = 1
                   /\ tk2.last_streak_date = e.date
                   /\ tk2.longest_streak = tk.longest_streak
                   /\ tk2.longest_streak_date = tk.longest_streak_date]_vars

\* A streak of 2 was reached and then a gap of more than one day reset it.
C13_Witness ==
    LET tracks == Ledger("alice", 77)
        tk == tracker_streak[tracker_streak_seeds("alice", 77)]
    IN  /\ Len(tracks) = 3
        /\ tracks[1].date > tracks[2].date + one_day
        /\ tracks[2].date = tracks[3].date + one_day
        /\ tk.streak = 1
        /\ tk.last_streak_date = tracks[1].date
        /\ tk.longest_streak = 2
        /\ tk.longest_streak_date = tracks[2].date

\* C14: an initialized streak record has longest_streak >= streak, and
\* longest_streak never decreases.
C14_LongestAtLeastStreak ==
    \A a \in TrackerStreakAddrs :
        tracker_streak[a].user # DefaultPubkey
            => tracker_streak[a].longest_streak >= tracker_streak[a].streak

C14_LongestStreakMonotone ==
    /\ []C14_LongestAtLeastStreak
    /\ [][\A a \in TrackerStreakAddrs :
             tracker_streak'[a].longest_streak >= tracker_streak[a].longest_streak]_vars

\* A record whose longest streak (3) is above its current streak.
C14_Witness ==
    LET tk == tracker_streak[tracker_streak_seeds("alice", 77)]
    IN  tk.longest_streak = 3 /\ tk.streak < 3

\* C15: get_tracker_stats for a tracker and a day on which no event was ever
\* accepted returns total_count 0 and unique_users 0, not an error; for a day
\* with accepted events it returns that day's aggregate.
C15_StatsOfEmptyDayAreZero ==
    \A title \in Titles, date \in Dates :
        tracker[title].exists =>
          LET tracker_id == tracker[title].id
              r == get_tracker_stats(tracker_id, date)
          IN  /\ r.res = "Ok"
              /\ r.total_count = LedgerSum(tracker_id, normalize(date))
              /\ r.unique_users = Cardinality(LedgerOwners(tracker_id, normalize(date)))

\* C16: the registry's title list changes only by appending the title of a
\* successful create_tracker, so it holds the titles in call order without
\* duplicates; a second initialize and a create_tracker with a title already
\* in the list fail and leave the list unchanged.
C16_NoDuplicateTitles ==
    \A i \in 1..Len(tracker_names), j \in 1..Len(tracker_names) :
        i # j => tracker_names[i] # tracker_names[j]

C16_ListStep ==
    /\ tracker_names' # tracker_names
         => \E title \in AllTitles :
               /\ ~tracker[title].exists
               /\ tracker'[title].exists
               /\ result' = "Ok"
               /\ tracker_names' = Append(tracker_names, title)
    /\ (registry_initialized /\ Initialize)
         => (result' # "Ok" /\ tracker_names' = tracker_names)
    /\ \A title \in AllTitles :
          ((\E i \in 1..Len(tracker_names) : tracker_names[i] = title)
              /\ CreateTracker(title))
          => (result' # "Ok" /\ tracker_names' = tracker_names)

C16_RegistryAppendOnly ==
    /\ []C16_NoDuplicateTitles
    /\ [][C16_ListStep]_vars

\* Three titles were registered and a further initialize or create_tracker
\* was refused.
C16_Witness ==
    /\ Len(tracker_names) = 3
    /\ result = "AccountAlreadyInUse"

\* The streak read off a ledger (sorted, most recent day first): the number
\* of entries, from the most recent one back, that fall on consecutive days
\* and have a non-zero count.
RecomputedStreak(tracks) ==
    Cardinality({i \in 1..Len(tracks) :
                    \A j \in 1..i :
                        /\ tracks[j].count > 0
                        /\ tracks[j].date = tracks[1].date - (j - 1) * one_day})

\* C17: after any accepted add_tracking_data calls for one owner and tracker,
\* the stored streak equals the streak recomputed from the ledger.
C17_StreakMatchesLedger ==
    \A user \in Users :
        LET tk == tracker_streak[tracker_streak_seeds(user, 77)]
        IN  tk.user # DefaultPubkey => tk.streak = RecomputedStreak(Ledger(user, 77))

\* C17 restricted to ledgers whose counts are all non-zero.
C17_StreakMatchesLedgerNonZero ==
    \A user \in Users :
        LET tk == tracker_streak[tracker_streak_seeds(user, 77)]
            tracks == Ledger(user, 77)
        IN  (tk.user # DefaultPubkey /\ \A i \in 1..Len(tracks) : tracks[i].count > 0)
                => tk.streak = RecomputedStreak(tracks)

\* C18: an accepted event with count 0 on the day after last_streak_date sets
\* streak to 0 and last_streak_date to that day and leaves longest_streak and
\* longest_streak_date unchanged; an accepted event with count > 0 on the
\* next day then raises streak to 1.
C18_Step ==
    \A e \in accepted' \ accepted :
        LET a == tracker_streak_seeds(e.user, e.tracker_id)
            tk == tracker_streak[a]
            tk2 == tracker_streak'[a]
            next_day == tk.user # DefaultPubkey /\ e.date = tk.last_streak_date + one_day
        IN  /\ (next_day /\ e.count = 0)
                 => /\ tk2.streak = 0
                    /\ tk2.last_streak_date = e.date
                    /\ tk2.longest_streak = tk.longest_streak
                    /\ tk2.longest_streak_date = tk.longest_streak_date
            /\ (next_day /\ e.count > 0 /\ tk.streak = 0)
                 => /\ tk2.streak = 1
                    /\ tk2.last_streak_date = e.date
                    /\ tk2.longest_streak = tk.longest_streak
                    /\ tk2.longest_streak_date = tk.longest_streak_date

C18_ZeroCountBreaksStreak == [][C18_Step]_vars

\* A streak of 2, then a zero-count day, then a day with count > 0.
C18_Witness ==
    LET tracks == Ledger("alice", 77)
        tk == tracker_streak[tracker_streak_seeds("alice", 77)]
    IN  /\ Len(tracks) = 4
        /\ \A i \in 1..3 : tracks[i].date = tracks[i + 1].date + one_day
        /\ tracks[1].count > 0
        /\ tracks[2].count = 0
        /\ tk.streak = 1
        /\ tk.last_streak_date = tracks[1].date
        /\ tk.longest_streak = 2
        /\ tk.longest_streak_date = tracks[3].date

\* C19: an accepted add_tracking_data call for one (owner, tracker) leaves
\* the ledger and streak record of every other (owner, tracker) pair
\* unchanged, and the daily aggregates and aggregate index of every other
\* tracker unchanged.  The call's tracker is a registered tracker with the
\* call's id.
C19_OthersUnchanged(user, title) ==
    \A user2 \in Users, title2 \in AllTitles :
        (tracker[title2].exists /\ <<user2, title2>> # <<user, title>>) =>
          LET id2 == tracker[title2].id
          IN  /\ tracking_data'[tracking_data_seeds(user2, id2)]
                    = tracking_data[tracking_data_seeds(user2, id2)]
              /\ tracker_streak'[tracker_streak_seeds(user2, id2)]
                    = tracker_streak[tracker_streak_seeds(user2, id2)]
              /\ title2 # title =>
                    /\ tracker_stats_list'[tracker_stats_list_seeds(id2)]
                          = tracker_stats_list[tracker_stats_list_seeds(id2)]
                    /\ \A date \in Dates :
                          tracker_stats'[tracker_stats_seeds(id2, date)]
                            = tracker_stats[tracker_stats_seeds(id2, date)]

C19_Step ==
    \A e \in accepted' \ accepted :
        \E title \in AllTitles :
            /\ tracker[title].exists
            /\ tracker[title].id = e.tracker_id
            /\ C19_OthersUnchanged(e.user, title)

C19_PairsIndependent == [][C19_Step]_vars

\* The length of the longest run of consecutive days in a ledger.
LongestRun(tracks) ==
    LET days == {tracks[i].date : i \in 1..Len(tracks)}
        runs == {n \in 1..Len(tracks) :
                    \E d \in days : \A k \in 0..(n - 1) : (d + k * one_day) \in days}
    IN  IF runs = {} THEN 0 ELSE CHOOSE n \in runs : \A m \in runs : m <= n

\* C20: for every owner and tracker, longest_streak (and so streak) is at
\* most the length of the longest run of consecutive days in the owner's
\* ledger for the tracker, in whatever order the days were submitted.
C20_LongestStreakWithinLedgerRun ==
    LET tk == tracker_streak[tracker_streak_seeds("alice", 77)]
    IN  /\ tk.longest_streak <= LongestRun(Ledger("alice", 77))
        /\ tk.streak <= tk.longest_streak

====
